---- MODULE Spec2Model ----
(***************************************************************************)
(* PhishGuard (src/App.tsx): the offline phishing-risk scorer and the      *)
(* analysis history of the App component.                                  *)
(*                                                                         *)
(* Texts are TLA+ strings, read character by character.  Offsets into a    *)
(* text are JavaScript offsets: offset i has i characters before it.       *)
(***************************************************************************)
EXTENDS Integers, Sequences, FiniteSets, TLC

VARIABLES
    lastIndex,   \* lastIndex[k]: the lastIndex field of advancedAnalysisRules[k].regex
    history,     \* the history state of App: a sequence of Analysis entries
    isLoading,   \* the isLoading state of App
    ocr,         \* the file names of the image requests awaiting Tesseract.recognize
    finishing,   \* how many image requests await analyzeText (line 471), with
                 \* the alert of line 472 and the finally block still to run
    input,       \* the input state of App: the text in the textarea
    calls,       \* how many times the scoring functions were called on their own
    ret          \* what the most recent run of the scoring pipeline returned

vars == <<lastIndex, history, isLoading, ocr, finishing, input, calls, ret>>

(***************************************************************************)
(* Characters and strings.                                                 *)
(***************************************************************************)
UpperLetters == "ABCDEFGHIJKLMNOPQRSTUVWXYZ"
LowerLetters == "abcdefghijklmnopqrstuvwxyz"

\* The character of s at offset i (empty when i is outside s).
CharAt(s, i) == SubSeq(s, i + 1, i + 1)

\* The set of the characters of the string s.
CharsOf(s) == { CharAt(s, i) : i \in 0..(Len(s) - 1) }

\* \s of a JavaScript regular expression, and the characters String.trim
\* strips: the space, the tab, the line feed, the carriage return, the form
\* feed and the vertical tab U+000B, which has no escape and stands in the
\* last string as the character itself.  (The white space beyond ASCII,
\* U+00A0, U+FEFF, U+2028 and the like, cannot stand in a string of this
\* module; no text of the model contains any.)
WhiteSpace == {" ", "\t", "\n", "\r", "\f", ""}

UpperSet == CharsOf(UpperLetters)
LowerSet == CharsOf(LowerLetters)
DigitSet == CharsOf("0123456789")


\* The lower-case letter of every upper-case letter.
LowerOf == [c \in UpperSet |->
               CharAt(LowerLetters, CHOOSE i \in 0..25 : CharAt(UpperLetters, i) = c)]

\* String.prototype.toLowerCase on one character.
LowerChar(c) == IF c \in UpperSet THEN LowerOf[c] ELSE c

\* The characters of s from offset lo up to, not including, offset hi,
\* each in lower case (the two halves one after the other).
RECURSIVE LowerBetween(_, _, _)
LowerBetween(s, lo, hi) ==
    IF hi <= lo THEN ""
    ELSE IF hi = lo + 1 THEN LowerChar(CharAt(s, lo))
    ELSE LET mid == (lo + hi) \div 2
         IN  LowerBetween(s, lo, mid) \o LowerBetween(s, mid, hi)

\* String.prototype.toLowerCase.
ToLowerCase(s) == LowerBetween(s, 0, Len(s))

\* The least member of a non-empty set of numbers.
Least(set) == CHOOSE a \in set : \A b \in set : a <= b

\* (s.match(/[class]/g) || []).length
CountChars(s, class) == Cardinality({ i \in 0..(Len(s) - 1) : CharAt(s, i) \in class })

\* String.prototype.includes.
Includes(s, part) ==
    \E i \in 0..(Len(s) - Len(part)) : SubSeq(s, i + 1, i + Len(part)) = part

\* String.prototype.trim.
RECURSIVE TrimStart(_)
TrimStart(s) ==
    IF Len(s) > 0 /\ CharAt(s, 0) \in WhiteSpace THEN TrimStart(SubSeq(s, 2, Len(s))) ELSE s

RECURSIVE TrimEnd(_)
TrimEnd(s) ==
    IF Len(s) > 0 /\ CharAt(s, Len(s) - 1) \in WhiteSpace
    THEN TrimEnd(SubSeq(s, 1, Len(s) - 1)) ELSE s

Trim(s) == TrimEnd(TrimStart(s))

(***************************************************************************)
(* Regular expressions.  A pattern is a tree; Ends(p, t, i) is the list of *)
(* the offsets at which a match of p that starts at offset i of t can end, *)
(* in the order in which the backtracking matcher tries them, so its head  *)
(* is the end of the match the engine reports.  Every pattern of the rule  *)
(* table carries the flags g and i: characters are compared ignoring case, *)
(* which is done by lower-casing the pattern's characters where the        *)
(* pattern is built and the text's characters where the search starts.     *)
(***************************************************************************)
Lit(s)           == [k |-> "lit", s |-> ToLowerCase(s)]          \* literal text
Cls(set)         == [k |-> "cls", set |-> { LowerChar(c) : c \in set }, neg |-> FALSE]  \* [...]
NotCls(set)      == [k |-> "cls", set |-> { LowerChar(c) : c \in set }, neg |-> TRUE]   \* [^...]
WordB            == [k |-> "wb"]                                 \* \b
Alt(ps)          == [k |-> "alt", ps |-> ps]                     \* (a|b|c)
Cat(ps)          == [k |-> "cat", ps |-> ps]                     \* abc
Rep(p, min, max) == [k |-> "rep", p |-> p, min |-> min, max |-> max]  \* p{min,max}
Unbounded        == 0 - 1                                        \* max of *, + and {n,}

\* The literal alternatives (a|b|c) of a rule.
RECURSIVE LitsFrom(_, _)
LitsFrom(words, j) ==
    IF j > Len(words) THEN << >> ELSE <<Lit(words[j])>> \o LitsFrom(words, j + 1)
AnyOf(words) == Alt(LitsFrom(words, 1))

\* The character of t at offset i is a \w of a JavaScript regular expression.
IsWordAt(t, i) ==
    i >= 0 /\ i < Len(t) /\ CharAt(t, i) \in UpperSet \cup LowerSet \cup DigitSet \cup {"_"}

RECURSIVE Ends(_, _, _)
RECURSIVE AltEnds(_, _, _, _)
RECURSIVE CatEnds(_, _, _, _)
RECURSIVE CatOver(_, _, _, _, _)
RECURSIVE RepEnds(_, _, _, _)
RECURSIVE RepOver(_, _, _, _, _, _)

Ends(p, t, i) ==
    CASE p.k = "lit" ->
           IF i + Len(p.s) <= Len(t)
              /\ SubSeq(t, i + 1, i + Len(p.s)) = p.s
           THEN <<i + Len(p.s)>> ELSE << >>
      [] p.k = "cls" ->
           IF i < Len(t)
              /\ ((CharAt(t, i) \in p.set) # p.neg)
           THEN <<i + 1>> ELSE << >>
      [] p.k = "dot" ->
           IF i < Len(t) /\ CharAt(t, i) \notin {"\n", "\r"} THEN <<i + 1>> ELSE << >>
      [] p.k = "wb"  -> IF IsWordAt(t, i - 1) # IsWordAt(t, i) THEN <<i>> ELSE << >>
      [] p.k = "alt" -> AltEnds(p.ps, 1, t, i)
      [] p.k = "cat" -> CatEnds(p.ps, 1, t, i)
      [] p.k = "rep" -> RepEnds(p, 0, t, i)

\* Alternatives are tried left to right.
AltEnds(ps, j, t, i) ==
    IF j > Len(ps) THEN << >> ELSE Ends(ps[j], t, i) \o AltEnds(ps, j + 1, t, i)

\* ps[j], ps[j+1], ... one after the other, starting at offset i.
CatEnds(ps, j, t, i) ==
    IF j > Len(ps) THEN <<i>> ELSE CatOver(Ends(ps[j], t, i), 1, ps, j + 1, t)

CatOver(es, n, ps, j, t) ==
    IF n > Len(es) THEN << >> ELSE CatEnds(ps, j, t, es[n]) \o CatOver(es, n + 1, ps, j, t)

\* A greedy quantifier after `done` iterations: one more iteration first,
\* then stopping here.  An iteration that consumes nothing ends the loop.
RepEnds(p, done, t, i) ==
    LET more == IF p.max = Unbounded \/ done < p.max
                THEN RepOver(Ends(p.p, t, i), 1, p, done + 1, t, i) ELSE << >>
        stop == IF done >= p.min THEN <<i>> ELSE << >>
    IN  more \o stop

RepOver(es, n, p, done, t, i) ==
    IF n > Len(es) THEN << >>
    ELSE (IF es[n] > i THEN RepEnds(p, done, t, es[n]) ELSE << >>)
         \o RepOver(es, n + 1, p, done, t, i)

NoMatch == 0 - 1

\* The end of the match of p that starts at offset `start` of t, NoMatch
\* when p does not match there.
MatchAt(p, t, start) ==
    LET es == Ends(p, t, start) IN IF es # << >> THEN Head(es) ELSE NoMatch

\* For every offset of t the end of the match of p that starts there; the
\* flag i makes the match read the text in lower case.
MatchEnds(p, t) ==
    LET canonical == ToLowerCase(t)
    IN  [start \in 0..Len(t) |-> MatchAt(p, canonical, start)]

\* The end of the leftmost match that starts at offset `from` or later,
\* NoMatch when there is none; matchEnds is MatchEnds of the pattern and
\* the text, length the length of the text.
MatchFrom(matchEnds, length, from) ==
    LET starts == { start \in from..length : matchEnds[start] # NoMatch }
    IN  IF starts = {} THEN NoMatch ELSE matchEnds[Least(starts)]

\* RegExp.prototype.test of a pattern with the g flag whose lastIndex is li:
\* the search starts at li; a match moves lastIndex to its end, a failure
\* resets lastIndex to 0.
RegexTest(matchEnds, length, li) ==
    LET e == IF li > length THEN NoMatch ELSE MatchFrom(matchEnds, length, li)
    IN  IF e = NoMatch THEN [matched |-> FALSE, lastIndex |-> 0]
        ELSE [matched |-> TRUE, lastIndex |-> e]

(***************************************************************************)
(* The rule table.                                                         *)
(***************************************************************************)
HttpScheme == Cat(<<Lit("http"), Rep(Lit("s"), 0, 1), Lit("://")>>)      \* https?:\/\/
Digit13    == Rep(Cls(DigitSet), 1, 3)                            \* \d{1,3}
HostChars  == Cls(LowerSet \cup DigitSet \cup {"-"}) \* [a-z0-9-]
Quote      == {"'", "\""}
Words(ws)  == Cat(<<WordB, AnyOf(ws), WordB>>)                           \* \b(a|b|c)\b
Then(ws, vs) ==                                                          \* \b(a|b)\b.*(c|d)
    Cat(<<WordB, AnyOf(ws), WordB, Rep([k |-> "dot"], 0, Unbounded), AnyOf(vs)>>)

Rule(id, category, weight, regex, reason) ==
    [id |-> id, category |-> category, weight |-> weight, regex |-> regex, reason |-> reason]

advancedAnalysisRules == <<
    Rule("URGENCY_1", "Urgency", 25,
         Words(<<"urgent", "immediate action required", "act now", "expiring soon",
                 "final warning">>),
         "Creates a false sense of urgency to rush you into making a mistake."),
    Rule("URGENCY_2", "Urgency", 15,
         Words(<<"limited time", "offer expires", "today only">>),
         "Pressures you with a time-sensitive deadline."),
    Rule("FINANCIAL_1", "Financial", 20,
         Words(<<"payment", "invoice", "wire transfer", "refund", "unusual transaction">>),
         "Mentions financial transactions to get your attention."),
    Rule("FINANCIAL_2", "Financial", 25,
         Words(<<"credit card", "bank account", "ssn", "social security", "pin">>),
         "Asks for highly sensitive financial or personal information."),
    Rule("AUTHORITY_1", "Authority", 15,
         Words(<<"verify your account", "account confirmation", "validate your details">>),
         "Impersonates a legitimate service asking for verification."),
    Rule("AUTHORITY_2", "Authority", 10,
         Words(<<"IT department", "help desk", "administrator">>),
         "Claims to be from a technical support or authority figure."),
    Rule("AUTHORITY_3", "Authority", 20,
         Then(<<"CEO", "CFO", "President", "Manager">>,
              <<"urgent request", "wire transfer", "gift card">>),
         "Impersonates a high-level executive to pressure you into making a financial transaction (CEO Fraud)."),
    Rule("AUTHORITY_4", "Authority", 15,
         Then(<<"fedex", "dhl", "ups", "usps", "postal service">>,
              <<"delivery failed", "shipping update", "tracking number">>),
         "Impersonates a well-known shipping company with a fake delivery notice."),
    Rule("LINKS_1", "Suspicious Links", 35,
         AnyOf(<<"bit.ly", "tinyurl", "t.co", "goo.gl", "ow.ly">>),
         "Uses a URL shortener to hide the real, potentially malicious, destination of the link."),
    Rule("LINKS_2", "Suspicious Links", 25,
         Cat(<<HttpScheme, Digit13, Lit("."), Digit13, Lit("."), Digit13, Lit("."), Digit13>>),
         "Links directly to an IP address instead of a trusted domain name."),
    Rule("LINKS_3", "Suspicious Links", 30,
         Cat(<<Lit("href"), Rep(Cls(WhiteSpace), 0, Unbounded), Lit("="),
               Rep(Cls(WhiteSpace), 0, Unbounded), Cls(Quote),
               Rep(NotCls(Quote), 0, Unbounded), Lit("@")>>),
         "Contains a link with an '@' symbol, a common trick to obscure the true domain."),
    Rule("LINKS_4", "Suspicious Links", 20,
         Cat(<<HttpScheme, Rep(HostChars, 1, Unbounded), Lit("."),
               AnyOf(<<"xyz", "top", "info", "club", "buzz", "icu">>), WordB>>),
         "Uses a top-level domain (.xyz, .top, etc.) often associated with spam or malicious sites."),
    Rule("LINKS_5", "Suspicious Links", 25,
         Cat(<<HttpScheme,
               Rep(Cat(<<Rep(HostChars, 1, Unbounded), Lit(".")>>), 3, Unbounded)>>),
         "Uses multiple subdomains, a technique to disguise a phishing domain as a legitimate one (e.g., yourbank.com.security.login.xyz)."),
    Rule("GREETING_1", "Generic Greeting", 10,
         Cat(<<Lit("dear "), AnyOf(<<"customer", "user", "valued member", "client">>)>>),
         "Uses a generic greeting. Legitimate companies usually use your name."),
    Rule("GRAMMAR_1", "Bad Grammar", 5,
         Words(<<"kindly", "plese", "verry", "congratulationz", "undeliverable">>),
         "Contains common spelling or grammatical errors, often found in phishing emails."),
    Rule("GRAMMAR_2", "Bad Grammar", 5,
         Cat(<<WordB, Rep(Cls(UpperSet), 5, Unbounded), WordB>>),
         "Excessive use of capital letters, intended to create unnecessary urgency or importance."),
    Rule("REWARD_1", "Unexpected Reward", 20,
         Words(<<"you have won", "prize", "lottery", "free gift", "claim your reward",
                 "inheritance">>),
         "Promises an unexpected prize or reward to lure you into clicking."),
    Rule("THREAT_1", "Threat", 25,
         Words(<<"account locked", "account suspended", "suspicious activity",
                 "unauthorized access", "security alert">>),
         "Uses threats about your account security to cause panic."),
    Rule("ATTACHMENT_1", "Unexpected Attachment", 20,
         Words(<<"attachment", "attached document", "invoice attached", "download the file">>),
         "References an unexpected attachment, which could contain malware."),
    Rule("PSYCH_1", "Psychological Tricks", 15,
         Words(<<"confidential", "private", "secret information">>),
         "Tries to spark curiosity by mentioning secret or confidential information.")
>>

RuleIx == 1..Len(advancedAnalysisRules)

(***************************************************************************)
(* Inputs.                                                                 *)
(***************************************************************************)
MaxRepeat  == 5    \* a repeated word occurs up to MaxRepeat times in a text
MaxHistory == 3    \* the history grows to at most MaxHistory entries
MaxCalls   == 3    \* the scoring functions are called on their own up to MaxCalls times
MaxPending == 2    \* up to MaxPending recognitions are pending at a time

\* word word ... word, count times.
RECURSIVE Repeat(_, _)
Repeat(word, count) ==
    IF count <= 1 THEN word ELSE word \o " " \o Repeat(word, count - 1)

RepeatedTexts == { Repeat(w, n) : w \in {"urgent", "verify"}, n \in 1..MaxRepeat }

EmptyText == ""
\* White space only: a space, a vertical tab and a space.
BlankText == "  "

\* The texts the scoring functions are called with.
CoreTexts ==
    { EmptyText, BlankText, "ok", "12345", "ABcde", "constructor", "Hi refund",
      "urgent payment",
      "account locked http://bit.ly/x",
      "verify your account payment",
      "urgent verify your account",
      "urgent attachment",
      "security alert help desk",
      "urgent payment account locked http://bit.ly/x",
      "verify your account is locked immediate action required payment refund",
      "Hi team, attaching the Q3 report for your review. Thanks!",
      "URGENT: verify your account immediately, click here http://bit.ly/x" }
    \cup RepeatedTexts

\* The texts analyzeText is called with.
TypedTexts ==
    { EmptyText, BlankText, "ok", "constructor", "Hi refund", "urgent payment",
      "urgent verify your account" }

\* The texts typed into the textarea.
InputTexts == { EmptyText, BlankText, "ok", "constructor", "Hi refund", "urgent payment" }

\* The image files offered and the texts Tesseract reads from them.
FileNames == {"scan.png"}
OcrTexts  == {"", "urgent payment"}

\* The template string analyzeImageOffline hands to analyzeText.
ImageText(fileName, dataText) == "[Image Analysis of: " \o fileName \o "]\n\n" \o dataText

ImageTexts == { ImageText(f, d) : f \in FileNames, d \in OcrTexts }

\* Every text the model scores.
AllTexts == CoreTexts \cup TypedTexts \cup ImageTexts

(***************************************************************************)
(* Numbers.  The keyword and phrase weights are written in tenths and a    *)
(* ratio count / length as the pair [num, den]; the scores computed from   *)
(* them are doubles (see Number arithmetic below).  A heuristic score and  *)
(* a stored score are whole numbers.  NaN stands for a value that is not   *)
(* a number (NaN, or the string that += builds from a non-number) where    *)
(* the value is otherwise a whole number.                                  *)
(***************************************************************************)
NaN == 0 - 999999

Min(a, b) == IF a <= b THEN a ELSE b


(***************************************************************************)
(* performAdvancedHeuristicAnalysis                                        *)
(***************************************************************************)
\* MatchEnds of every rule on every text of the model, worked out once.
RuleMatchEnds ==
    [text \in AllTexts |-> LET lowerCaseText == ToLowerCase(text)
                           IN  [k \in RuleIx |->
                                   MatchEnds(advancedAnalysisRules[k].regex, lowerCaseText)]]

\* rule.regex.test(lowerCaseText) for rule k, whose regex has lastIndex li.
TestRule(k, text, li) == RegexTest(RuleMatchEnds[text][k], Len(text), li)

\* The body of the forEach callback for one rule, matched telling what
\* rule.regex.test returned.
VisitRule(rule, matched, acc) ==
    IF ~matched THEN acc
    ELSE IF \E n \in 1..Len(acc.foundFlags) : acc.foundFlags[n].id = rule.id
    THEN [acc EXCEPT !.score = @ + rule.weight]
    ELSE [score |-> acc.score + rule.weight,
          foundFlags |-> Append(acc.foundFlags,
              [reason |-> rule.reason, category |-> rule.category, id |-> rule.id]),
          foundCategories |-> acc.foundCategories \cup {rule.category}]

\* rules.forEach(...), from rule k on; tests[k].matched is what the test
\* of rule k returns.
RECURSIVE ForEachRule(_, _, _, _)
ForEachRule(rules, k, tests, acc) ==
    IF k > Len(rules) THEN acc
    ELSE ForEachRule(rules, k + 1, tests, VisitRule(rules[k], tests[k].matched, acc))

\* The contextual combination bonuses: <<category, category, bonus>>.
CombinationBonuses == <<
    <<"Urgency", "Financial", 20>>,
    <<"Threat", "Suspicious Links", 25>>,
    <<"Authority", "Financial", 25>>,
    <<"Authority", "Urgency", 20>>,
    <<"Unexpected Attachment", "Urgency", 15>>,
    <<"Threat", "Authority", 20>> >>

RECURSIVE AddBonuses(_, _, _)
AddBonuses(n, foundCategories, score) ==
    IF n > Len(CombinationBonuses) THEN score
    ELSE LET b == CombinationBonuses[n]
         IN  AddBonuses(n + 1, foundCategories,
                 IF b[1] \in foundCategories /\ b[2] \in foundCategories
                 THEN score + b[3] ELSE score)

\* Lines 80 to 89: the bonuses, the limit and the returned object, acc
\* being what the forEach loop left.
HeuristicResult(acc) ==
    [score      |-> Min(AddBonuses(1, acc.foundCategories, acc.score), 100),
     foundFlags |-> acc.foundFlags]

\* What performAdvancedHeuristicAnalysis(text) returns when the regex of
\* rule k has lastIndex li[k].
performAdvancedHeuristicAnalysis(text, li) ==
    HeuristicResult(ForEachRule(advancedAnalysisRules, 1, [k \in DOMAIN li |-> TestRule(k, text, li[k])],
                        [score |-> 0, foundFlags |-> << >>, foundCategories |-> {}]))

\* The lastIndex that performAdvancedHeuristicAnalysis(text) leaves in the
\* regex of every rule.
LastIndexAfter(text, li) == [k \in DOMAIN li |-> TestRule(k, text, li[k]).lastIndex]

(***************************************************************************)
(* Number arithmetic.  The scores of the ML model are IEEE 754 doubles:    *)
(* every +, * and / of lines 132-174 rounds its exact result to the        *)
(* nearest double, ties to even.  A double is a record with a sign, a      *)
(* mantissa of MantissaBits bits and an exponent, of value mant * 2^exp;   *)
(* zero has the empty mantissa, and the exponent of NaN is NaN.  A         *)
(* mantissa is a natural number written as a sequence of digits in base    *)
(* Base, the least significant first, without leading zero digits.  The    *)
(* values of the model are far from the overflow and underflow of a        *)
(* double, which are left out, as is the sign of zero.                     *)
(***************************************************************************)
Base == 2^15
MantissaBits == 53

\* n as a sequence of digits.
RECURSIVE NatOfInt(_)
NatOfInt(n) == IF n = 0 THEN << >> ELSE <<n % Base>> \o NatOfInt(n \div Base)

\* a without its leading zero digits.
RECURSIVE NatTrim(_)
NatTrim(a) ==
    IF a = << >> \/ a[Len(a)] # 0 THEN a ELSE NatTrim(SubSeq(a, 1, Len(a) - 1))

\* Digit i of a.
Limb(a, i) == IF i <= Len(a) THEN a[i] ELSE 0

\* The digits of a + k * b from digit i on, carry being carried in; k is -1
\* or a natural number below Base, and the result is not negative.
RECURSIVE NatPlusTimes(_, _, _, _, _)
NatPlusTimes(a, b, k, i, carry) ==
    IF i > Len(a) /\ i > Len(b)
    THEN (IF carry = 0 THEN << >> ELSE <<carry>>)
    ELSE <<(Limb(a, i) + k * Limb(b, i) + carry) % Base>>
         \o NatPlusTimes(a, b, k, i + 1, (Limb(a, i) + k * Limb(b, i) + carry) \div Base)

NatAdd(a, b) == NatTrim(NatPlusTimes(a, b, 1, 1, 0))

\* a - b, for a >= b.
NatSub(a, b) == NatTrim(NatPlusTimes(a, b, 0 - 1, 1, 0))

RECURSIVE NatMul(_, _)
NatMul(a, b) ==
    IF a = << >> \/ b = << >> THEN << >>
    ELSE NatAdd(NatPlusTimes(<< >>, a, b[1], 1, 0), <<0>> \o NatMul(a, Tail(b)))

NatLess(a, b) ==
    \E i \in 1..Len(b) :
        /\ Limb(a, i) < b[i]
        /\ \A j \in (i + 1)..(Len(a) + Len(b)) : Limb(a, j) = Limb(b, j)

\* The digits of floor((rem * Base^Len(a) + a) / d), for rem < d <= Base.
RECURSIVE NatDivSmall(_, _, _)
NatDivSmall(a, d, rem) ==
    IF a = << >> THEN << >>
    ELSE Append(NatDivSmall(SubSeq(a, 1, Len(a) - 1), d, (rem * Base + a[Len(a)]) % d),
                (rem * Base + a[Len(a)]) \div d)

\* a * 2^k for k >= 0, floor(a / 2^-k) for k < 0.
NatShift(a, k) ==
    IF a = << >> THEN << >>
    ELSE IF k >= 0
    THEN [i \in 1..(k \div 15) |-> 0] \o NatPlusTimes(<< >>, a, 2^(k % 15), 1, 0)
    ELSE NatTrim(NatDivSmall(SubSeq(a, ((0 - k) \div 15) + 1, Len(a)), 2^((0 - k) % 15), 0))

\* The number of bits of a.
NatBitLen(a) ==
    IF a = << >> THEN 0
    ELSE 15 * (Len(a) - 1) + (CHOOSE n \in 1..15 : 2^(n - 1) <= a[Len(a)] /\ a[Len(a)] < 2^n)

DoubleZero == [neg |-> FALSE, mant |-> << >>, exp |-> 0]
DoubleNaN == [neg |-> FALSE, mant |-> << >>, exp |-> NaN]

\* The double m * 2^e, negated when neg, for m of at most MantissaBits + 1
\* bits with the last of them 0.
Normal(neg, m, e) ==
    IF m = << >> THEN DoubleZero
    ELSE [neg  |-> neg,
          mant |-> NatShift(m, MantissaBits - NatBitLen(m)),
          exp  |-> e - (MantissaBits - NatBitLen(m))]

\* The double nearest to m * 2^e, negated when neg, for m of MantissaBits + k
\* bits: when bits are cut, half of the last bit kept is added first, less
\* one when that bit is 0, so that a tie goes to the even mantissa.
RoundedBy(neg, m, e, k) ==
    IF k <= 0 THEN Normal(neg, m, e)
    ELSE Normal(neg,
                NatShift(NatAdd(m, IF Limb(NatShift(m, 0 - k), 1) % 2 = 1
                                   THEN NatShift(<<1>>, k - 1)
                                   ELSE NatSub(NatShift(<<1>>, k - 1), <<1>>)),
                         0 - k),
                e + k)

Rounded(neg, m, e) == RoundedBy(neg, m, e, NatBitLen(m) - MantissaBits)

\* The sum of mx * 2^e and my * 2^e with their signs.
AddAligned(xneg, mx, yneg, my, e) ==
    Rounded(IF xneg = yneg \/ ~NatLess(mx, my) THEN xneg ELSE yneg,
            IF xneg = yneg THEN NatAdd(mx, my)
            ELSE IF NatLess(mx, my) THEN NatSub(my, mx) ELSE NatSub(mx, my),
            e)

\* x + y
DoubleAdd(x, y) ==
    IF x.exp = NaN \/ y.exp = NaN THEN DoubleNaN
    ELSE AddAligned(x.neg, NatShift(x.mant, x.exp - Min(x.exp, y.exp)),
                    y.neg, NatShift(y.mant, y.exp - Min(x.exp, y.exp)),
                    Min(x.exp, y.exp))

\* x * y
DoubleMul(x, y) ==
    IF x.exp = NaN \/ y.exp = NaN THEN DoubleNaN
    ELSE Rounded(x.neg # y.neg, NatMul(x.mant, y.mant), x.exp + y.exp)

\* n / d for integers n and 0 < d <= Base; also the value of a decimal
\* literal, 0.9 being Quotient(9, 10).  The quotient is cut 90 bits below
\* the unit: with d <= Base what is cut off is 0 or more than 2^-16 away
\* from a tie, so that the cut does not change the rounding.
Quotient(n, d) ==
    Rounded(n < 0,
            NatTrim(NatDivSmall(NatShift(NatOfInt(IF n < 0 THEN 0 - n ELSE n), 90), d, 0)),
            0 - 90)

\* x < y of JavaScript: false when either side is NaN.
DoubleLess(x, y) ==
    IF x.exp = NaN \/ y.exp = NaN THEN FALSE
    ELSE IF x.mant = << >> THEN y.mant # << >> /\ ~y.neg
    ELSE IF y.mant = << >> THEN x.neg
    ELSE IF x.neg # y.neg THEN x.neg
    ELSE IF x.neg THEN y.exp < x.exp \/ (y.exp = x.exp /\ NatLess(y.mant, x.mant))
    ELSE x.exp < y.exp \/ (x.exp = y.exp /\ NatLess(x.mant, y.mant))

\* The whole number a sequence of digits stands for.
RECURSIVE NatToInt(_)
NatToInt(a) == IF a = << >> THEN 0 ELSE a[1] + Base * NatToInt(Tail(a))

\* The whole number n as a double.
IntDouble(n) == Rounded(n < 0, NatOfInt(IF n < 0 THEN 0 - n ELSE n), 0)

\* -x
Negated(x) == IF x.mant = << >> THEN x ELSE [x EXCEPT !.neg = ~@]

\* x - y
DoubleSub(x, y) == DoubleAdd(x, Negated(y))

\* d * g, for g <= Base
NatTimes(d, g) == NatTrim(NatPlusTimes(<< >>, d, g, 1, 0))

\* floor(r / d) for r < Base * d and d of MantissaBits bits, given low, the
\* quotient of the leading bits with the divisor rounded up, which is at
\* most 3 too low.
DigitFrom(r, d, low) ==
    CHOOSE g \in low..(low + 3) : ~NatLess(r, NatTimes(d, g)) /\ NatLess(r, NatTimes(d, g + 1))
Digit(r, d) ==
    DigitFrom(r, d, NatToInt(NatShift(r, 0 - 38)) \div (NatToInt(NatShift(d, 0 - 38)) + 1))

\* Long division, digit by digit.  DivDigits(r, d, n), for r < d, is twice
\* floor(r * Base^n / d), plus 1 when the division leaves a remainder;
\* DivFrom(r, d, n, g) is the same for r * Base^n with r < Base * d, g being
\* the digit floor(r / d).
RECURSIVE DivDigits(_, _, _)
DivFrom(r, d, n, g) ==
    NatAdd(NatShift(NatOfInt(g), 15 * n + 1), DivDigits(NatSub(r, NatTimes(d, g)), d, n))
DivDigits(r, d, n) ==
    IF n = 0 THEN (IF r = << >> THEN << >> ELSE <<1>>)
    ELSE DivFrom(NatShift(r, 15), d, n - 1, Digit(NatShift(r, 15), d))

\* x / y, for y that is not 0: the quotient of the mantissas to 60 binary
\* places, which is more than MantissaBits bits, with one more bit that
\* tells whether anything was cut off.
DoubleDiv(x, y) ==
    IF x.exp = NaN \/ y.exp = NaN THEN DoubleNaN
    ELSE IF x.mant = << >> THEN DoubleZero
    ELSE Rounded(x.neg # y.neg,
                 DivFrom(x.mant, y.mant, 4, Digit(x.mant, y.mant)),
                 x.exp - y.exp - 61)

\* Math.min(x, y)
MathMin(x, y) ==
    IF x.exp = NaN \/ y.exp = NaN THEN DoubleNaN ELSE IF DoubleLess(y, x) THEN y ELSE x

\* Math.round(x) for x that is not negative: floor(x + 0.5), NaN for NaN.
MathRound(x) ==
    IF x.exp = NaN THEN NaN
    ELSE NatToInt(NatShift(NatAdd(x.mant, IF x.exp < 0 THEN NatShift(<<1>>, 0 - x.exp - 1)
                                          ELSE << >>),
                           x.exp))

(***************************************************************************)
(* Math.exp.  ECMAScript leaves the last bit of Math.exp to the engine;    *)
(* this is the function of V8 (Node), the exp of fdlibm: the argument is   *)
(* reduced to r = x - k * ln2 with |r| <= 0.5 * ln2, exp(r) is computed    *)
(* from a polynomial, and the result is scaled by 2^k.  A logit lies       *)
(* between -8.2 and 42 (the sums of the negative and of the positive       *)
(* weights), so that the branches of exp for results beyond the range of   *)
(* a double are left out.                                                  *)
(***************************************************************************)
ExpConstants ==
    [ln2HI     |-> [neg |-> FALSE, mant |-> <<0, 32192, 14603, 177>>, exp |-> 0 - 53],
     ln2LO     |-> [neg |-> FALSE, mant |-> <<15478, 27378, 26556, 209>>, exp |-> 0 - 85],
     invln2    |-> [neg |-> FALSE, mant |-> <<766, 19031, 21789, 184>>, exp |-> 0 - 52],
     P1        |-> [neg |-> FALSE, mant |-> <<21822, 10922, 21845, 170>>, exp |-> 0 - 55],
     P2        |-> [neg |-> TRUE, mant |-> <<15763, 11645, 1456, 182>>, exp |-> 0 - 61],
     P3        |-> [neg |-> FALSE, mant |-> <<24108, 24139, 22954, 138>>, exp |-> 0 - 66],
     P4        |-> [neg |-> TRUE, mant |-> <<27633, 2980, 29959, 221>>, exp |-> 0 - 72],
     P5        |-> [neg |-> FALSE, mant |-> <<9424, 25981, 23973, 177>>, exp |-> 0 - 77],
     E         |-> [neg |-> FALSE, mant |-> <<22377, 5672, 31786, 173>>, exp |-> 0 - 51],
     \* The least double whose high word is above 0x3fd62e42: |x| > 0.5 ln2.
     halfLn2   |-> [neg |-> FALSE, mant |-> <<0, 0, 14604, 177>>, exp |-> 0 - 54],
     \* 2^-28, the double of high word 0x3e300000.
     tiny      |-> [neg |-> FALSE, mant |-> <<0, 0, 0, 128>>, exp |-> 0 - 80]]

\* c = x - t * (P1 + t * (P2 + t * (P3 + t * (P4 + t * P5)))), for t = x * x.
ExpC(x, t) ==
    DoubleSub(x,
        DoubleMul(t, DoubleAdd(ExpConstants.P1,
        DoubleMul(t, DoubleAdd(ExpConstants.P2,
        DoubleMul(t, DoubleAdd(ExpConstants.P3,
        DoubleMul(t, DoubleAdd(ExpConstants.P4,
        DoubleMul(t, ExpConstants.P5))))))))))

\* The result from the reduced argument x = hi - lo, c and k:
\* one - ((x * c) / (c - 2.0) - x) when k is 0, and otherwise
\* y = one - ((lo - (x * c) / (2.0 - c)) - hi) times 2^k.
ExpFromC(x, c, hi, lo, k) ==
    IF k = 0
    THEN DoubleSub(IntDouble(1),
                   DoubleSub(DoubleDiv(DoubleMul(x, c), DoubleSub(c, IntDouble(2))), x))
    ELSE [DoubleSub(IntDouble(1),
                    DoubleSub(DoubleSub(lo, DoubleDiv(DoubleMul(x, c),
                                                      DoubleSub(IntDouble(2), c))),
                              hi))
          EXCEPT !.exp = @ + k]

\* x = hi - lo; t = x * x
ExpOfReduced(x, hi, lo, k) == ExpFromC(x, ExpC(x, DoubleMul(x, x)), hi, lo, k)

\* hi = x - t * ln2HI; lo = t * ln2LO, for t = k
ExpReduced(x, k) ==
    ExpOfReduced(DoubleSub(DoubleSub(x, DoubleMul(IntDouble(k), ExpConstants.ln2HI)),
                           DoubleMul(IntDouble(k), ExpConstants.ln2LO)),
                 DoubleSub(x, DoubleMul(IntDouble(k), ExpConstants.ln2HI)),
                 DoubleMul(IntDouble(k), ExpConstants.ln2LO),
                 k)

\* (int)(invln2 * x + halF[xsb]): the cast cuts the fraction off.
ExpK(x) ==
    (IF x.neg THEN 0 - 1 ELSE 1)
    * NatToInt(NatShift(DoubleAdd(DoubleMul(ExpConstants.invln2, x),
                                  Quotient(IF x.neg THEN 0 - 5 ELSE 5, 10)).mant,
                        DoubleAdd(DoubleMul(ExpConstants.invln2, x),
                                  Quotient(IF x.neg THEN 0 - 5 ELSE 5, 10)).exp))

\* Math.exp(x).  Between 0.5 ln2 and 1.5 ln2 the source of V8 takes k = 1 or
\* -1, which is what the cast gives there, and returns E for x = 1.
Exp(x) ==
    IF x.exp = NaN THEN DoubleNaN
    ELSE IF ~DoubleLess(x, ExpConstants.halfLn2) \/ ~DoubleLess(Negated(ExpConstants.halfLn2), x)
    THEN (IF x = IntDouble(1) THEN ExpConstants.E ELSE ExpReduced(x, ExpK(x)))
    ELSE IF DoubleLess(x, ExpConstants.tiny) /\ DoubleLess(Negated(ExpConstants.tiny), x)
    THEN DoubleAdd(IntDouble(1), x)
    ELSE ExpOfReduced(x, DoubleZero, DoubleZero, 0)

(***************************************************************************)
(* extractMLFeatures and runAdvancedMLAnalysis                             *)
(***************************************************************************)
\* The keyword table, weights in tenths.
mlKeywords == <<
    <<"verify", 9>>, <<"password", 8>>, <<"username", 7>>, <<"ssn", 10>>, <<"locked", 8>>,
    <<"suspended", 8>>, <<"unusual", 7>>, <<"activity", 6>>, <<"login", 7>>,
    <<"confidential", 8>>, <<"immediate", 8>>, <<"action", 6>>, <<"required", 7>>,
    <<"winner", 9>>, <<"prize", 9>>, <<"congratulations", 8>>, <<"free", 7>>,
    <<"invoice", 7>>, <<"payment", 8>>, <<"refund", 7>>, <<"inheritance", 9>>,
    <<"kindly", 6>>, <<"wire", 9>>, <<"transfer", 8>>,
    <<"hello", -5>>, <<"team", -4>>, <<"update", -3>>, <<"meeting", -6>>, <<"report", -5>>,
    <<"thanks", -7>>, <<"sincerely", -8>>, <<"documentation", -6>>, <<"feedback", -5>>,
    <<"reminder", -2>> >>

\* The phrase table, weights in tenths, in the order of Object.keys.
mlNgrams == <<
    <<"verify your", 9>>, <<"your account", 8>>, <<"account is", 6>>, <<"is locked", 9>>,
    <<"action required", 8>>, <<"immediate action", 9>>, <<"click here", 7>>,
    <<"update your", 7>>, <<"credit card", 9>>, <<"bank account", 9>>,
    <<"dear customer", 6>>, <<"social security", 10>>, <<"final notice", 8>> >>

\* mlKeywords is an object literal: a lookup of a name it does not hold
\* goes on to Object.prototype.  These are the names Object.prototype
\* holds that a lower-cased token can equal; their values are a function
\* and an object.
ObjectPrototypeKeys == {"constructor", "__proto__"}

Undefined == 0 - 888888

\* mlKeywords[token]: the weight in tenths, NaN for a value that is not a
\* number, Undefined when there is no such property.
KeywordLookup(token) ==
    IF \E n \in 1..Len(mlKeywords) : mlKeywords[n][1] = token
    THEN mlKeywords[CHOOSE n \in 1..Len(mlKeywords) : mlKeywords[n][1] = token][2]
    ELSE IF token \in ObjectPrototypeKeys THEN NaN
    ELSE Undefined

\* a += b on the keyword score, b in tenths: a number plus a number is their
\* sum; with a function or an object on the right, or a string on the left,
\* the result is a string, not a number.
PlusAssign(a, b) == IF b = NaN THEN DoubleNaN ELSE DoubleAdd(a, Quotient(b, 10))

\* s.replace(/[.,!?;:"']/g, ' ') on the characters of s from offset lo up
\* to, not including, offset hi (the two halves one after the other).
RECURSIVE ReplacePunctuation(_, _, _)
ReplacePunctuation(s, lo, hi) ==
    IF hi <= lo THEN ""
    ELSE IF hi = lo + 1
    THEN (IF CharAt(s, lo) \in {".", ",", "!", "?", ";", ":", "\"", "'"} THEN " " ELSE CharAt(s, lo))
    ELSE LET mid == (lo + hi) \div 2
         IN  ReplacePunctuation(s, lo, mid) \o ReplacePunctuation(s, mid, hi)

\* The first offset from i on that holds white space, or that holds none;
\* the length of s when there is no such offset.
NextWhiteSpace(s, i) ==
    Least({ j \in i..(Len(s) - 1) : CharAt(s, j) \in WhiteSpace } \cup {Len(s)})
NextNonWhiteSpace(s, i) ==
    Least({ j \in i..(Len(s) - 1) : CharAt(s, j) \notin WhiteSpace } \cup {Len(s)})

\* s.split(/\s+/) from offset i on: the piece up to the next run of white
\* space, then the pieces after that run.
RECURSIVE SplitFrom(_, _)
SplitFrom(s, i) ==
    LET stop == NextWhiteSpace(s, i)
    IN  <<SubSeq(s, i + 1, stop)>>
        \o (IF stop = Len(s) THEN << >> ELSE SplitFrom(s, NextNonWhiteSpace(s, stop)))

Split(s) == SplitFrom(s, 0)

\* [...new Set(tokens)]: each token once, in the order of first occurrence.
RECURSIVE Unique(_, _)
Unique(tokens, n) ==
    IF n > Len(tokens) THEN << >>
    ELSE (IF \E m \in 1..(n - 1) : tokens[m] = tokens[n] THEN << >> ELSE <<tokens[n]>>)
         \o Unique(tokens, n + 1)

Tokenize(lowerCaseText) == Split(ReplacePunctuation(lowerCaseText, 0, Len(lowerCaseText)))

\* The keyword loop run over tokens instead of uniqueTokens.
KeywordTokensRepeated(tokens) == tokens

\* The tokens the keyword loop visits.
KeywordTokens(tokens) == Unique(tokens, 1)

\* uniqueTokens.forEach(...), from token n on.
RECURSIVE ForEachToken(_, _, _)
ForEachToken(uniqueTokens, n, acc) ==
    IF n > Len(uniqueTokens) THEN acc
    ELSE LET token == uniqueTokens[n]
             w     == KeywordLookup(token)
         IN  ForEachToken(uniqueTokens, n + 1,
                 IF w # Undefined /\ w # 0
                 THEN [keywordScore |-> PlusAssign(acc.keywordScore, w),
                       flaggedWords |-> IF w # NaN /\ w > 6 THEN Append(acc.flaggedWords, token)
                                        ELSE acc.flaggedWords]
                 ELSE acc)

\* Object.keys(mlNgrams).forEach(...), from phrase n on.
RECURSIVE ForEachNgram(_, _, _)
ForEachNgram(lowerCaseText, n, acc) ==
    IF n > Len(mlNgrams) THEN acc
    ELSE ForEachNgram(lowerCaseText, n + 1,
             IF Includes(lowerCaseText, mlNgrams[n][1])
             THEN [ngramScore |-> DoubleAdd(acc.ngramScore, Quotient(mlNgrams[n][2], 10)),
                   flaggedNgrams |-> Append(acc.flaggedNgrams, mlNgrams[n][1])]
             ELSE acc)

\* The class of the symbolRatio pattern: the characters it lists, and the
\* range it holds from "/" to "=", which is "/", the ten digits, ":", ";",
\* "<" and "=".  (The class also lists the grave accent, which a string of
\* this module cannot hold; no text of the model contains one.)
SymbolClass ==
    {"!", "@", "#", "$", "%", "^", "&", "*", "(", ")", "_", "+", "~", "|", "}", "{",
     "[", "]", ":", ";", "?", ">", "<", ",", "."}
    \cup {"/"} \cup DigitSet \cup {":", ";", "<", "="}

\* text.length, without the || 1 that guards the division.
TextLengthUnguarded(text) == Len(text)

\* text.length || 1
TextLength(text) == IF Len(text) = 0 THEN 1 ELSE Len(text)

\* (text.match(class) || []).length / textLength
Ratio(text, class) == [num |-> CountChars(text, class), den |-> TextLength(text)]

ZeroRatio == [num |-> 0, den |-> 1]

extractMLFeatures(text) ==
    LET lowerCaseText == ToLowerCase(text)
        uniqueTokens  == KeywordTokens(Tokenize(lowerCaseText))
        kw == ForEachToken(uniqueTokens, 1, [keywordScore |-> DoubleZero, flaggedWords |-> << >>])
        ng == ForEachNgram(lowerCaseText, 1, [ngramScore |-> DoubleZero, flaggedNgrams |-> << >>])
    IN  [keywordScore   |-> kw.keywordScore,
         ngramScore     |-> ng.ngramScore,
         uppercaseRatio |-> Ratio(text, UpperSet),
         symbolRatio    |-> Ratio(text, SymbolClass),
         digitRatio     |-> Ratio(text, DigitSet),
         flaggedWords   |-> kw.flaggedWords,
         flaggedNgrams  |-> ng.flaggedNgrams]

\* The model weights, in tenths.
modelWeights ==
    [keywordScore |-> 12, ngramScore |-> 15, uppercaseRatio |-> 50,
     symbolRatio |-> 30, digitRatio |-> 15, bias |-> 0 - 20]

\* The logit: the five products added from left to right, then the bias;
\* NaN when the keyword score is not a number.  A ratio is count / textLength.
Logit(f) ==
    DoubleAdd(
        DoubleAdd(
            DoubleAdd(
                DoubleAdd(
                    DoubleAdd(DoubleMul(f.keywordScore, Quotient(modelWeights.keywordScore, 10)),
                              DoubleMul(f.ngramScore, Quotient(modelWeights.ngramScore, 10))),
                    DoubleMul(Quotient(f.uppercaseRatio.num, f.uppercaseRatio.den),
                              Quotient(modelWeights.uppercaseRatio, 10))),
                DoubleMul(Quotient(f.symbolRatio.num, f.symbolRatio.den),
                          Quotient(modelWeights.symbolRatio, 10))),
            DoubleMul(Quotient(f.digitRatio.num, f.digitRatio.den),
                      Quotient(modelWeights.digitRatio, 10))),
        Quotient(modelWeights.bias, 10))

\* probability * 100, for probability = 1 / (1 + Math.exp(-logit)).
SigmoidScore(f) ==
    DoubleMul(DoubleDiv(IntDouble(1), DoubleAdd(IntDouble(1), Exp(Negated(Logit(f))))),
              IntDouble(100))

NoFeatures ==
    [keywordScore |-> DoubleZero, ngramScore |-> DoubleZero, uppercaseRatio |-> ZeroRatio,
     symbolRatio |-> ZeroRatio, digitRatio |-> ZeroRatio,
     flaggedWords |-> << >>, flaggedNgrams |-> << >>]

\* runAdvancedMLAnalysis without its first line, the early return for
\* empty text.
runAdvancedMLAnalysisNoEarlyReturn(text) ==
    LET features == extractMLFeatures(text)
    IN  [score   |-> MathMin(SigmoidScore(features), IntDouble(100)),
         details |-> features]

runAdvancedMLAnalysis(text) ==
    IF text = "" THEN [score |-> DoubleZero, details |-> NoFeatures]
    ELSE LET features == extractMLFeatures(text)
         IN  [score   |-> MathMin(SigmoidScore(features), IntDouble(100)),
              details |-> features]

(***************************************************************************)
(* generateCombinedExplanation.  The bullet that the source prints before  *)
(* a category is written "*" here, and the risk labels are written         *)
(* without their trailing emoji.                                           *)
(***************************************************************************)
\* score > n for a whole number n.
ScoreAbove(score, n) == DoubleLess(IntDouble(n), score)

\* The tier of: score > 60 ? 'High Risk' : score > 30 ? 'Medium Risk' : 'Low Risk'
Tier(finalScore) ==
    IF ScoreAbove(finalScore, 60) THEN "High Risk"
    ELSE IF ScoreAbove(finalScore, 30) THEN "Medium Risk"
    ELSE "Low Risk"

FixedLowRiskMessage ==
    "Overall Assessment: Low Risk\n\nOur analysis did not find any common phishing indicators. However, always remain cautious and verify unexpected requests through official channels."

ExplanationIntro ==
    "\n\nThis content exhibits characteristics of a phishing attempt. We advise caution.\n\n"

HeuristicHeading == "Heuristic Analysis (Rule-Based Detections):\n"
MLHeading == "\nMachine Learning Analysis (Linguistic & Structural Cues):\n"
RecommendationHeading == "\nRecommendation:\n"

HighRecommendation ==
    "DO NOT click any links, download attachments, or reply. Delete this message immediately. If you are concerned about an account, log in through an official website or app you trust, not through any links provided in this message."
MediumRecommendation ==
    "This content has some suspicious elements. Be very careful before proceeding. Double-check the sender's identity and independently verify any requests before taking action."
LowRecommendation ==
    "While the risk score is low, one or more potential issues were flagged. It's always best to be cautious with unsolicited messages."

\* Array.prototype.join.
RECURSIVE Join(_, _, _)
Join(items, n, sep) ==
    IF n > Len(items) THEN ""
    ELSE items[n] \o (IF n < Len(items) THEN sep ELSE "") \o Join(items, n + 1, sep)

\* The whole array in place of slice(0, count).
SliceToAll(items, count) == items

\* Array.prototype.slice(0, count).
SliceTo(items, count) == SubSeq(items, 1, Min(count, Len(items)))

\* The category of every flag, a category as often as it has flags.
CategoryKeysRepeated(foundFlags, n) ==
    [m \in 1..Len(foundFlags) |-> foundFlags[m].category]

\* Object.keys(flagsByCategory): the categories in the order of their first flag.
RECURSIVE CategoryKeys(_, _)
CategoryKeys(foundFlags, n) ==
    IF n > Len(foundFlags) THEN << >>
    ELSE (IF \E m \in 1..(n - 1) : foundFlags[m].category = foundFlags[n].category
          THEN << >> ELSE <<foundFlags[n].category>>)
         \o CategoryKeys(foundFlags, n + 1)

\* The lines "  - reason" of one category, from flag n on.
RECURSIVE ReasonLines(_, _, _)
ReasonLines(foundFlags, category, n) ==
    IF n > Len(foundFlags) THEN ""
    ELSE (IF foundFlags[n].category = category
          THEN "  - " \o foundFlags[n].reason \o "\n" ELSE "")
         \o ReasonLines(foundFlags, category, n + 1)

RECURSIVE CategoryBlocks(_, _, _)
CategoryBlocks(foundFlags, keys, n) ==
    IF n > Len(keys) THEN ""
    ELSE "* [" \o keys[n] \o "]\n" \o ReasonLines(foundFlags, keys[n], 1)
         \o CategoryBlocks(foundFlags, keys, n + 1)

HeuristicSection(foundFlags) ==
    IF Len(foundFlags) > 0
    THEN HeuristicHeading \o CategoryBlocks(foundFlags, CategoryKeys(foundFlags, 1), 1)
    ELSE ""

\* ratio > 1 / parts
RatioAbove(ratio, parts) == ratio.num * parts > ratio.den


MLSection(mlResult) ==
    LET mlDetails == mlResult.details
    IN  IF Len(mlDetails.flaggedWords) > 0 \/ Len(mlDetails.flaggedNgrams) > 0
           \/ ScoreAbove(mlResult.score, 20)
        THEN MLHeading
             \o (IF Len(mlDetails.flaggedNgrams) > 0
                 THEN "  - Detected suspicious phrases: "
                      \o Join(SliceTo(mlDetails.flaggedNgrams, 3), 1, ", ")
                      \o ".\n"
                 ELSE "")
             \o (IF Len(mlDetails.flaggedWords) > 0
                 THEN "  - Identified high-risk keywords: "
                      \o Join(SliceTo(mlDetails.flaggedWords, 4), 1, ", ")
                      \o ".\n"
                 ELSE "")
             \o (IF RatioAbove(mlDetails.uppercaseRatio, 10)
                 THEN "  - Noticed an unusually high amount of capital letters, a common tactic to create false urgency.\n"
                 ELSE "")
             \o (IF RatioAbove(mlDetails.symbolRatio, 20)
                 THEN "  - Detected an unusual density of symbols, which can be used to obscure text.\n"
                 ELSE "")
        ELSE ""

Recommendation(finalScore) ==
    IF ScoreAbove(finalScore, 60) THEN HighRecommendation
    ELSE IF ScoreAbove(finalScore, 30) THEN MediumRecommendation
    ELSE LowRecommendation

\* generateCombinedExplanation without lines 187 to 189, the early return.
generateCombinedExplanationNoEarlyReturn(heuristicResult, mlResult, finalScore) ==
    "Overall Assessment: " \o Tier(finalScore) \o ExplanationIntro
    \o HeuristicSection(heuristicResult.foundFlags)
    \o MLSection(mlResult)
    \o RecommendationHeading \o Recommendation(finalScore)

generateCombinedExplanation(heuristicResult, mlResult, finalScore) ==
    IF DoubleLess(finalScore, IntDouble(5)) THEN FixedLowRiskMessage
    ELSE "Overall Assessment: " \o Tier(finalScore) \o ExplanationIntro
         \o HeuristicSection(heuristicResult.foundFlags)
         \o MLSection(mlResult)
         \o RecommendationHeading \o Recommendation(finalScore)

(***************************************************************************)
(* The scoring steps of analyzeText.                                       *)
(***************************************************************************)
\* The two scores added at weight 1 each in place of 0.5 each.
BlendScoresUnweighted(hScore, mlScore) ==
    MathMin(IntDouble(100), DoubleAdd(IntDouble(hScore), mlScore))

\* Math.min(100, heuristicResult.score * 0.5 + mlResult.score * 0.5)
BlendScores(hScore, mlScore) ==
    MathMin(IntDouble(100),
            DoubleAdd(DoubleMul(IntDouble(hScore), Quotient(5, 10)),
                      DoubleMul(mlScore, Quotient(5, 10))))

\* The label of Math.round(score) in place of that of score.
LabelOfRoundedScore(finalScore) ==
    Tier(IF finalScore.exp = NaN THEN DoubleNaN ELSE IntDouble(MathRound(finalScore)))

\* score > 60 ? "High Risk" : score > 30 ? "Medium Risk" : "Low Risk"
LabelOf(finalScore) == Tier(finalScore)

\* The Analysis entry of line 458 (its time field left out).
Analysis(text, score, label, explanation) ==
    [text |-> text, score |-> MathRound(score), label |-> label, explanation |-> explanation]

\* What one run of lines 451 to 458 of analyzeText computed.  features is
\* what extractMLFeatures returned.
PipelineRun(text, heuristicResult, mlResult, score, explanation, label) ==
    [called          |-> TRUE,
     text            |-> text,
     heuristicResult |-> heuristicResult,
     mlResult        |-> mlResult,
     features        |-> mlResult.details,
     score           |-> score,
     explanation     |-> explanation,
     label           |-> label,
     entry           |-> Analysis(text, score, label, explanation)]

\* Lines 455 and 456: the explanation and the label of the blended score.
ExplainAndLabel(text, heuristicResult, mlResult, score) ==
    PipelineRun(text, heuristicResult, mlResult, score,
                generateCombinedExplanation(heuristicResult, mlResult, score),
                LabelOf(score))

\* Line 453: the blended score of the two results.
Blend(text, heuristicResult, mlResult) ==
    ExplainAndLabel(text, heuristicResult, mlResult,
                    BlendScores(heuristicResult.score, mlResult.score))

\* runAdvancedMLAnalysis(text) for every text of the model, worked out once.
MLResults == [text \in AllTexts |-> runAdvancedMLAnalysis(text)]

\* Lines 451 to 458 of analyzeText, the regex of rule k having lastIndex li[k].
ScorePipeline(textToAnalyze, li) ==
    Blend(textToAnalyze,
          performAdvancedHeuristicAnalysis(textToAnalyze, li),
          MLResults[textToAnalyze])

(***************************************************************************)
(* State.                                                                  *)
(***************************************************************************)
\* ret before any run of the pipeline.
NoCall ==
    [called          |-> FALSE,
     text            |-> "",
     heuristicResult |-> [score |-> 0, foundFlags |-> << >>],
     mlResult        |-> [score |-> DoubleZero, details |-> NoFeatures],
     features        |-> NoFeatures,
     score           |-> DoubleZero,
     explanation     |-> "",
     label           |-> "",
     entry           |-> [text |-> "", score |-> 0, label |-> "", explanation |-> ""]]

\* What localStorage holds under phishHistory when App mounts, as line 409
\* reads it: nothing, or what line 421 wrote in an earlier session, here
\* the entry of "ok" scored first after loading.
StoredHistories == { << >>, <<ScorePipeline("ok", [k \in RuleIx |-> 0]).entry>> }

\* The module has just been loaded (every regex has lastIndex 0) and App is
\* mounted over the phishHistory store.
Init ==
    /\ lastIndex = [k \in RuleIx |-> 0]
    /\ history \in StoredHistories
    /\ isLoading = FALSE
    /\ ocr = << >>
    /\ finishing = 0
    /\ input = ""
    /\ calls = 0
    /\ ret = NoCall

(***************************************************************************)
(* The scoring functions called on their own.                              *)
(***************************************************************************)
\* A caller outside the App component calls the scoring functions on
\* text: extractMLFeatures(text), and the three stages of the pipeline as
\* analyzeText chains them.
ScoreText(text) ==
    /\ calls < MaxCalls
    /\ calls' = calls + 1
    /\ lastIndex' = LastIndexAfter(text, lastIndex)
    /\ ret' = [ScorePipeline(text, lastIndex) EXCEPT !.features = extractMLFeatures(text)]
    /\ UNCHANGED <<history, isLoading, ocr, finishing, input>>

NextCore == \E text \in CoreTexts : ScoreText(text)

SpecCore == Init /\ [][NextCore]_vars

(***************************************************************************)
(* generateCombinedExplanation called on its own.                          *)
(***************************************************************************)
\* The heuristic result in which exactly the rules of a set matched.
HeuristicOf(rules) ==
    HeuristicResult(ForEachRule(advancedAnalysisRules, 1,
                        [k \in RuleIx |-> [matched |-> k \in rules]],
                        [score |-> 0, foundFlags |-> << >>, foundCategories |-> {}]))

\* The texts whose ML result is passed to the function.
MLSampleTexts ==
    { EmptyText, "ok", "ABcde", "constructor",
      "verify hello meeting thanks sincerely",
      "verify your account is locked immediate action required payment refund" }
\* runAdvancedMLAnalysis on each of the sample texts.
MLSampleResults == [text \in MLSampleTexts |-> runAdvancedMLAnalysis(text)]
\* n / 4, NaN for NaN.
Quarters(n) == IF n = NaN THEN DoubleNaN ELSE Quotient(n, 4)

\* What one call generateCombinedExplanation(heuristicResult, mlResult,
\* finalScore) was given and what it returned.
ExplanationRun(heuristicResult, mlResult, finalScore) ==
    PipelineRun("", heuristicResult, mlResult, finalScore,
                generateCombinedExplanation(heuristicResult, mlResult, finalScore), "")

ExplainOnly(rules, text, finalScore) ==
    /\ calls < MaxCalls
    /\ calls' = calls + 1
    /\ ret' = ExplanationRun(HeuristicOf(rules), MLSampleResults[text], Quarters(finalScore))
    /\ UNCHANGED <<lastIndex, history, isLoading, ocr, finishing, input>>

NextExplain ==
    \E rules \in { {}, {16}, {1, 2, 3}, {1, 3, 5, 9, 10, 16, 18} },
       text \in MLSampleTexts,
       finalScore \in { 0, 19, 20, 21, 120, 121, 240, 241, 400, NaN } :
        ExplainOnly(rules, text, finalScore)

SpecExplain == Init /\ [][NextExplain]_vars

(***************************************************************************)
(* The App component.                                                      *)
(***************************************************************************)
\* An event of the page is a task of the event loop: it runs when no
\* continuation of an async function is waiting in the microtask queue,
\* finishing = 0.
\* onChange of the textarea: setInput(e.target.value).
SetInput(text) ==
    /\ finishing = 0
    /\ ~isLoading
    /\ input' = text
    /\ UNCHANGED <<lastIndex, history, isLoading, ocr, finishing, calls, ret>>

\* analyzeText with setHistory([entry]) in place of
\* setHistory(prev => [...prev, entry]).
AnalyzeTextBodyReplacing(textToAnalyze) ==
    IF Trim(textToAnalyze) = ""
    THEN UNCHANGED <<lastIndex, history, input, ret>>
    ELSE /\ lastIndex' = LastIndexAfter(textToAnalyze, lastIndex)
         /\ ret' = ScorePipeline(textToAnalyze, lastIndex)
         /\ history' = <<ret'.entry>>
         /\ input' = ""

\* The body of analyzeText(textToAnalyze): blank text is refused with an
\* alert; otherwise the text is scored, one entry is appended to the
\* history, the input is cleared and isLoading ends false.
AnalyzeTextBody(textToAnalyze) ==
    IF Trim(textToAnalyze) = ""
    THEN UNCHANGED <<lastIndex, history, input, ret>>
    ELSE /\ lastIndex' = LastIndexAfter(textToAnalyze, lastIndex)
         /\ ret' = ScorePipeline(textToAnalyze, lastIndex)
         /\ history' = Append(history, ret'.entry)
         /\ input' = ""

\* analyzeText(textToAnalyze): it has no await before its end and runs in
\* one step.  Blank text returns before setIsLoading; otherwise isLoading
\* is set true and, at the end, false.
AnalyzeText(textToAnalyze) ==
    /\ Len(history) < MaxHistory
    /\ AnalyzeTextBody(textToAnalyze)
    /\ isLoading' = IF Trim(textToAnalyze) = "" THEN isLoading ELSE FALSE
    /\ UNCHANGED <<ocr, finishing>>

\* The Analyze button: onClick analyzeText(input), disabled while
\* isLoading or while the input is blank.
AnalyzeButton ==
    /\ finishing = 0
    /\ ~isLoading
    /\ Trim(input) # ""
    /\ AnalyzeText(input)
    /\ UNCHANGED calls

\* analyzeImageOffline(file) up to its first await (line 470): isLoading
\* is set and the file goes to Tesseract.recognize, whatever other
\* requests are running.
AnalyzeImageOffline(fileName) ==
    /\ Len(ocr) + finishing < MaxPending
    /\ isLoading' = TRUE
    /\ ocr' = Append(ocr, fileName)
    /\ UNCHANGED <<lastIndex, history, finishing, input, calls, ret>>

\* The file input: onChange analyzeImageOffline(file), disabled while
\* isLoading.
ChooseFile(fileName) ==
    /\ finishing = 0
    /\ ~isLoading
    /\ AnalyzeImageOffline(fileName)

\* Tesseract.recognize of one of the pending requests resolves and the
\* try block goes on to line 471, where analyzeText runs to its end on
\* the template text, which is never blank: one entry is appended, the
\* input is cleared and line 461 sets isLoading false.  The await of
\* line 471 then yields: the rest of the request runs in a later turn.
OcrResolved(dataText) ==
    \E n \in DOMAIN ocr :
        /\ Len(history) < MaxHistory
        /\ AnalyzeTextBody(ImageText(ocr[n], dataText))
        /\ isLoading' = FALSE
        /\ ocr' = SubSeq(ocr, 1, n - 1) \o SubSeq(ocr, n + 1, Len(ocr))
        /\ finishing' = finishing + 1
        /\ UNCHANGED calls

\* The request ends at line 472 with neither the alert nor a finally
\* block: isLoading stays as it is.
OcrFinishedNoFinally ==
    /\ finishing > 0
    /\ finishing' = finishing - 1
    /\ UNCHANGED <<lastIndex, history, isLoading, ocr, input, calls, ret>>

\* The turn after the await of line 471: the alert of line 472, then the
\* finally block sets isLoading false, whatever has run since line 461,
\* and the request is over.
OcrFinished ==
    /\ finishing > 0
    /\ finishing' = finishing - 1
    /\ isLoading' = FALSE
    /\ UNCHANGED <<lastIndex, history, ocr, input, calls, ret>>

\* Tesseract.recognize of one of the pending requests rejects: in that
\* one turn the catch block reports, finally sets isLoading false and the
\* request is over.
OcrRejected ==
    \E n \in DOMAIN ocr :
        /\ isLoading' = FALSE
        /\ ocr' = SubSeq(ocr, 1, n - 1) \o SubSeq(ocr, n + 1, Len(ocr))
        /\ UNCHANGED <<lastIndex, history, finishing, input, calls, ret>>

\* clearHistory(): an alert when the history is empty; otherwise
\* window.confirm, and the history is emptied when the user confirms.
ClearHistory(confirmed) ==
    /\ history' = IF Len(history) = 0 \/ ~confirmed THEN history ELSE << >>
    /\ UNCHANGED <<lastIndex, isLoading, ocr, finishing, input, calls, ret>>

\* The Clear History button: onClick clearHistory, never disabled.
ClearHistoryButton(confirmed) ==
    /\ finishing = 0
    /\ ClearHistory(confirmed)

\* The events of the mounted App: what its enabled controls call, a
\* pending recognition settling, and a resolved request running on after
\* its second await.  The controls let one request run at a time, so that
\* no recognition is pending while one is finishing.
Next ==
    \/ \E text \in InputTexts : SetInput(text)
    \/ AnalyzeButton
    \/ \E fileName \in FileNames : ChooseFile(fileName)
    \/ \E dataText \in OcrTexts : OcrResolved(dataText)
    \/ OcrFinished
    \/ OcrRejected
    \/ \E confirmed \in BOOLEAN : ClearHistoryButton(confirmed)

Spec == Init /\ [][Next]_vars

(***************************************************************************)
(* analyzeText and analyzeImageOffline called on their own, with any text  *)
(* and at any time: while a recognition is pending, and between the two    *)
(* turns of a resolved request.                                            *)
(***************************************************************************)
\* One call analyzeText(text); calls counts them.
CallAnalyzeText(text) ==
    /\ calls < MaxCalls
    /\ calls' = calls + 1
    /\ AnalyzeText(text)

NextHandlers ==
    \/ \E text \in TypedTexts : CallAnalyzeText(text)
    \/ \E fileName \in FileNames : AnalyzeImageOffline(fileName)
    \/ \E dataText \in OcrTexts : OcrResolved(dataText)
    \/ OcrFinished
    \/ OcrRejected

SpecHandlers == Init /\ [][NextHandlers]_vars

(***************************************************************************)
(* Properties.                                                             *)
(***************************************************************************)
\* Rule k's pattern occurs somewhere in the lower-cased text.
Occurs(k, text) == MatchFrom(RuleMatchEnds[text][k], Len(text), 0) # NoMatch

OccurringRules(text) == { k \in RuleIx : Occurs(k, text) }

CategoriesOf(rules) == { advancedAnalysisRules[k].category : k \in rules }

RECURSIVE WeightSum(_)
WeightSum(rules) ==
    IF rules = {} THEN 0
    ELSE LET k == CHOOSE k \in rules : TRUE
         IN  advancedAnalysisRules[k].weight + WeightSum(rules \ {k})

\* The position in the rule table of the rule with this id.
RuleOf(id) == CHOOSE k \in RuleIx : advancedAnalysisRules[k].id = id

\* One combination bonus: v when both categories are among cats.
PairBonus(cats, a, b, v) == IF a \in cats /\ b \in cats THEN v ELSE 0

SixBonuses(cats) ==
    PairBonus(cats, "Urgency", "Financial", 20)
    + PairBonus(cats, "Threat", "Suspicious Links", 25)
    + PairBonus(cats, "Authority", "Financial", 25)
    + PairBonus(cats, "Authority", "Urgency", 20)
    + PairBonus(cats, "Unexpected Attachment", "Urgency", 15)
    + PairBonus(cats, "Threat", "Authority", 20)

\* The place of a score x, a double that is not negative, among the whole
\* numbers: 2 * floor(x) when x is whole and 2 * floor(x) + 1 when it is
\* not, so that x > n is Grid(x) > 2 * n; NaN for NaN.
Grid(x) ==
    IF x.exp = NaN THEN NaN
    ELSE 2 * NatToInt(NatShift(x.mant, x.exp))
         + (IF x.exp < 0 /\ NatShift(NatShift(x.mant, x.exp), 0 - x.exp) # x.mant
            THEN 1 ELSE 0)

\* Grid(2 * score) for a blended score: score > n is ScoreGrid(score) > 4 * n.
ScoreGrid(score) == Grid(DoubleAdd(score, score))

\* C1: after any sequence of analyses, the blended score of an accepted
\* text is a number in [0,100], and the score stored in every appended
\* entry is a whole number in [0,100], whatever tokens the text holds.
C1_ScoreInRange ==
    /\ ret.called => (ScoreGrid(ret.score) # NaN /\ 0 <= ScoreGrid(ret.score) /\ ScoreGrid(ret.score) <= 4 * 100)
    /\ \A n \in 1..Len(history) : history[n].score \in 0..100

\* C2: scoring is idempotent: a call on the text of the call just before
\* it returns the same heuristic score and evidence list, and the same
\* blended score, label and explanation, whatever was scored earlier.
C2_Idempotent ==
    [][(ret.called /\ ret'.called /\ ret'.text = ret.text)
          => /\ ret'.heuristicResult = ret.heuristicResult
             /\ ret'.score = ret.score
             /\ ret'.entry = ret.entry]_vars

\* C3: a scoring call leaves the process-wide tables as they were,
\* the matching position of every rule's pattern object included.
C3_TablesUnchanged == [][lastIndex' = lastIndex]_vars

\* C4: in a heuristic scoring call every rule whose pattern occurs in the
\* lower-cased text produces exactly one evidence entry and adds its weight
\* once, a rule whose pattern does not occur produces none and adds
\* nothing, and the evidence is in rule-table order without repeated ids.
C4_EachOccurringRuleOnce ==
    ret.called =>
        LET flags == ret.heuristicResult.foundFlags
            occ   == OccurringRules(ret.text)
        IN  /\ \A k \in RuleIx :
                   Cardinality({ n \in 1..Len(flags) :
                                   flags[n].id = advancedAnalysisRules[k].id })
                   = IF k \in occ THEN 1 ELSE 0
            /\ \A m, n \in 1..Len(flags) :
                   m < n => RuleOf(flags[m].id) < RuleOf(flags[n].id)
            /\ ret.heuristicResult
               = HeuristicResult([score           |-> WeightSum(occ),
                                  foundFlags      |-> flags,
                                  foundCategories |-> CategoriesOf(occ)])

\* C5: the heuristic score is min(100, the weights of the rules the text
\* matches + the six bonuses, each added once exactly when both of its
\* categories have a rule the text matches); a text matching an Urgency
\* rule and a Financial rule scores at least the two weights plus 20.
C5_BonusComposition ==
    ret.called =>
        LET occ  == OccurringRules(ret.text)
            cats == CategoriesOf(occ)
        IN  /\ ret.heuristicResult.score = Min(100, WeightSum(occ) + SixBonuses(cats))
            /\ \A u, f \in occ :
                   (advancedAnalysisRules[u].category = "Urgency"
                    /\ advancedAnalysisRules[f].category = "Financial")
                   => ret.heuristicResult.score
                      >= advancedAnalysisRules[u].weight
                         + advancedAnalysisRules[f].weight + 20

\* The dashboard bucket that counts an entry with this stored score:
\* h.score <= 30, h.score > 30 && h.score <= 60, h.score > 60.
Bucket(score) ==
    IF score = NaN THEN "none"
    ELSE IF score <= 30 THEN "Low Risk"
    ELSE IF score <= 60 THEN "Medium Risk"
    ELSE "High Risk"

\* C6: the label of every entry of the history agrees with the thresholds
\* applied to its stored rounded score, and so names the dashboard bucket
\* that counts the entry.
C6_LabelMatchesStoredScore ==
    \A n \in 1..Len(history) :
        history[n].score # NaN => history[n].label = Bucket(history[n].score)

\* C7: the pipeline run on the empty string gives heuristic score 0 with
\* no evidence, ML score 0 with the five numeric features 0 and both
\* flagged lists empty, blended score 0, label Low Risk and exactly the
\* fixed low-risk explanation.
C7_EmptyText ==
    (ret.called /\ ret.text = EmptyText) =>
        /\ ret.heuristicResult = [score |-> 0, foundFlags |-> << >>]
        /\ Grid(ret.mlResult.score) = 0
        /\ ret.mlResult.details.keywordScore = DoubleZero
        /\ ret.mlResult.details.ngramScore = DoubleZero
        /\ ret.mlResult.details.uppercaseRatio.num = 0
        /\ ret.mlResult.details.symbolRatio.num = 0
        /\ ret.mlResult.details.digitRatio.num = 0
        /\ ret.mlResult.details.flaggedWords = << >>
        /\ ret.mlResult.details.flaggedNgrams = << >>
        /\ ScoreGrid(ret.score) = 0
        /\ ret.entry.score = 0
        /\ ret.label = "Low Risk"
        /\ ret.explanation = FixedLowRiskMessage

\* The empty string was scored after other texts had been.
C7_Witness == ret.called /\ ret.text = EmptyText /\ calls >= 2

\* This step appends exactly one entry and keeps the earlier ones.
AppendsOne ==
    /\ Len(history') = Len(history) + 1
    /\ SubSeq(history', 1, Len(history)) = history

\* This step is an analyzeText call that accepts its text.
AcceptedAnalyzeText ==
    \/ AnalyzeButton
    \/ \E dataText \in OcrTexts : OcrResolved(dataText)

\* This step is clearHistory, confirmed, on a history that holds entries.
ConfirmedClear == history # << >> /\ ClearHistory(TRUE)

\* C8 as stated: every operation leaves the history unchanged or appends
\* exactly one entry at its end, each accepted analyzeText call appends
\* exactly one, and no operation removes or rewrites an entry.
C8_AppendOnly ==
    [][/\ (history' = history \/ AppendsOne)
       /\ (AcceptedAnalyzeText => AppendsOne)]_vars

\* C8 amended: every operation other than a confirmed clearHistory leaves
\* the history unchanged or appends exactly one entry at its end, each
\* accepted analyzeText call appends exactly one, and a confirmed
\* clearHistory on a history that holds entries removes them all.
C8_AppendOnlyUntilCleared ==
    [][/\ (history' = history \/ AppendsOne \/ ConfirmedClear)
       /\ (AcceptedAnalyzeText => AppendsOne)
       /\ (ConfirmedClear => history' = << >>)]_vars

\* Two analyses were accepted one after the other.
C8_Witness == Len(history) >= 2 /\ ret.called /\ history[Len(history)] = ret.entry

\* The whole number nearest to 10 * x, a score in tenths; NaN for NaN.
Tenths(x) ==
    IF x.exp = NaN THEN NaN
    ELSE (IF x.neg THEN 0 - 1 ELSE 1)
         * NatToInt(NatShift(NatAdd(NatPlusTimes(<< >>, x.mant, 10, 1, 0),
                                    IF x.exp < 0 THEN NatShift(<<1>>, 0 - x.exp - 1)
                                    ELSE << >>),
                             x.exp))

\* The keyword weight, in tenths, of the words of a set.
RECURSIVE KeywordWeightSum(_)
KeywordWeightSum(words) ==
    IF words = {} THEN 0
    ELSE LET w == CHOOSE w \in words : TRUE
         IN  KeywordLookup(w) + KeywordWeightSum(words \ {w})

\* The keys of the keyword table.
KeywordKeys == { mlKeywords[n][1] : n \in 1..Len(mlKeywords) }

\* The offset in tokens of the first occurrence of word.
FirstAt(tokens, word) == Least({ n \in 1..Len(tokens) : tokens[n] = word })

\* C9: a keyword that occurs any number of times in the text adds its
\* table weight to keywordScore once, and is at most once in flaggedWords,
\* which is in the order of first occurrence.
C9_KeywordOnce ==
    ret.called =>
        LET tokens   == Tokenize(ToLowerCase(ret.text))
            present  == { tokens[n] : n \in 1..Len(tokens) }
            keywords == present \cap KeywordKeys
            flagged  == ret.features.flaggedWords
        IN  /\ present \cap ObjectPrototypeKeys = {}
                   => Tenths(ret.features.keywordScore) = KeywordWeightSum(keywords)
            /\ { flagged[n] : n \in 1..Len(flagged) }
                   = { w \in keywords : KeywordLookup(w) > 6 }
            /\ \A m, n \in 1..Len(flagged) :
                   m < n => FirstAt(tokens, flagged[m]) < FirstAt(tokens, flagged[n])

\* "verify verify verify" was scored: the score is 0.9, the word flagged once.
C9_Witness ==
    /\ ret.called
    /\ ret.text = Repeat("verify", 3)
    /\ Tenths(ret.features.keywordScore) = 9
    /\ ret.features.flaggedWords = <<"verify">>

\* The three ratios of a feature record.
RatiosOf(f) == { f.uppercaseRatio, f.symbolRatio, f.digitRatio }

\* C10: the three ratios extractMLFeatures returns are each in [0,1], over
\* a divisor that is not zero; for a text of length zero all three are 0.
C10_RatiosInRange ==
    ret.called =>
        /\ \A r \in RatiosOf(ret.features) : r.den > 0 /\ 0 <= r.num /\ r.num <= r.den
        /\ Len(ret.text) = 0 => \A r \in RatiosOf(ret.features) : r.num = 0

\* extractMLFeatures was called on the empty string.
C10_Witness ==
    /\ ret.called
    /\ ret.text = EmptyText
    /\ ret.features.symbolRatio = [num |-> 0, den |-> 1]

\* s ends with tail.
EndsWith(s, tail) ==
    Len(s) >= Len(tail) /\ SubSeq(s, Len(s) - Len(tail) + 1, Len(s)) = tail

\* The final score is a number and is 5 or more.
AtLeastFive(finalScore) == finalScore # NaN /\ finalScore >= 4 * 5

RecommendationParagraphs == { HighRecommendation, MediumRecommendation, LowRecommendation }

\* C11: generateCombinedExplanation returns exactly the fixed low-risk
\* message when the final score is below 5, whatever evidence and features
\* it is given; for a final score of 5 or more it does not return that
\* message and ends with a recommendation paragraph.
C11_FixedMessageBelowFive ==
    ret.called =>
        /\ (ScoreGrid(ret.score) # NaN /\ ScoreGrid(ret.score) < 4 * 5) => ret.explanation = FixedLowRiskMessage
        /\ AtLeastFive(ScoreGrid(ret.score)) =>
               /\ ret.explanation # FixedLowRiskMessage
               /\ \E paragraph \in RecommendationParagraphs :
                      EndsWith(ret.explanation, RecommendationHeading \o paragraph)

\* A final score below 5 was explained although rules had matched and
\* keywords were flagged.
C11_Witness ==
    /\ ret.called
    /\ ScoreGrid(ret.score) = 19
    /\ Len(ret.heuristicResult.foundFlags) > 1
    /\ Len(ret.mlResult.details.flaggedWords) > 0
    /\ ret.explanation = FixedLowRiskMessage

\* items[1], items[2], ... separated by ", ".
RECURSIVE CommaList(_)
CommaList(items) ==
    IF Len(items) = 0 THEN ""
    ELSE IF Len(items) = 1 THEN items[1]
    ELSE CommaList(SubSeq(items, 1, Len(items) - 1)) \o ", " \o items[Len(items)]

\* The first n items, fewer when there are fewer.
FirstItems(items, n) == [i \in 1..(IF Len(items) < n THEN Len(items) ELSE n) |-> items[i]]

\* C12: for a final score of 5 or more the explanation has the ML section
\* exactly when flaggedWords or flaggedNgrams is not empty or the raw ML
\* score is above 20; the section lists the first 3 flagged phrases at
\* most and the first 4 flagged keywords at most, in their order.
C12_MLSection ==
    (ret.called /\ AtLeastFive(ScoreGrid(ret.score))) =>
        LET words   == ret.mlResult.details.flaggedWords
            phrases == ret.mlResult.details.flaggedNgrams
            present == Includes(ret.explanation, MLHeading)
        IN  /\ present <=> \/ Len(words) > 0
                           \/ Len(phrases) > 0
                           \/ (Grid(ret.mlResult.score) # NaN /\ Grid(ret.mlResult.score) > 2 * 20)
            /\ Includes(ret.explanation, "suspicious phrases: ") <=> Len(phrases) > 0
            /\ Includes(ret.explanation, "high-risk keywords: ") <=> Len(words) > 0
            /\ Len(phrases) > 0 =>
                   Includes(ret.explanation,
                       "\n  - Detected suspicious phrases: "
                       \o CommaList(FirstItems(phrases, 3)) \o ".\n")
            /\ Len(words) > 0 =>
                   Includes(ret.explanation,
                       "\n  - Identified high-risk keywords: "
                       \o CommaList(FirstItems(words, 4)) \o ".\n")

\* An explanation was built from more than 3 flagged phrases and more than
\* 4 flagged keywords.
C12_Witness ==
    /\ ret.called
    /\ AtLeastFive(ScoreGrid(ret.score))
    /\ Len(ret.mlResult.details.flaggedNgrams) > 3
    /\ Len(ret.mlResult.details.flaggedWords) > 4
    /\ Includes(ret.explanation, MLHeading)

PhishingMessage == "URGENT: verify your account immediately, click here http://bit.ly/x"
ReportMessage   == "Hi team, attaching the Q3 report for your review. Thanks!"

\* The rules whose flags are in a list of evidence.
FlaggedRules(foundFlags) == { RuleOf(foundFlags[n].id) : n \in 1..Len(foundFlags) }

\* C13: scoring the text "URGENT: verify your account immediately, click
\* here http://bit.ly/x" matches a rule of each of the categories Urgency,
\* Authority and Suspicious Links, the heuristic score holds the
\* Authority + Urgency bonus of 20, and the result is labelled High Risk
\* with a score above 60.
C13_PhishingMessageHighRisk ==
    (ret.called /\ ret.text = PhishingMessage) =>
        LET matched == FlaggedRules(ret.heuristicResult.foundFlags)
        IN  /\ {"Urgency", "Authority", "Suspicious Links"} \subseteq CategoriesOf(matched)
            /\ ret.heuristicResult.score >= Min(100, WeightSum(matched) + 20)
            /\ ScoreGrid(ret.score) # NaN /\ ScoreGrid(ret.score) > 4 * 60
            /\ ret.label = "High Risk"
            /\ ret.entry.label = "High Risk"
            /\ ret.entry.score > 60

\* The text has a run of 5 or more upper-case letters.
HasUpperCaseRun(text) ==
    \E i \in 0..(Len(text) - 5) : \A j \in i..(i + 4) : CharAt(text, j) \in UpperSet

\* No rule other than GRAMMAR_2 has its phrase in the text, and the text
\* has no run of 5 or more upper-case letters.
NoTrigger(text) ==
    /\ OccurringRules(text) \subseteq {RuleOf("GRAMMAR_2")}
    /\ ~HasUpperCaseRun(text)

\* C14: a text with no trigger phrase and no run of 5 or more upper-case
\* letters matches no rule: the heuristic score is 0 and the evidence list
\* is empty.
C14_NoTriggerNoEvidence ==
    (ret.called /\ NoTrigger(ret.text)) =>
        /\ ret.heuristicResult.score = 0
        /\ ret.heuristicResult.foundFlags = << >>

\* C15: scored as the first text after the module is loaded, "Hi team,
\* attaching the Q3 report for your review. Thanks!" has a blended score
\* below 5, the label Low Risk and exactly the fixed low-risk explanation.
C15_ReportMessageLowRisk ==
    (ret.called /\ calls = 1 /\ ret.text = ReportMessage) =>
        /\ ScoreGrid(ret.score) # NaN /\ ScoreGrid(ret.score) < 4 * 5
        /\ ret.label = "Low Risk"
        /\ ret.entry.label = "Low Risk"
        /\ ret.explanation = FixedLowRiskMessage
        /\ ret.entry.explanation = FixedLowRiskMessage

\* The report message was the first text scored; GRAMMAR_2 matched in it,
\* and the blended score stayed below 5.
C15_Witness ==
    /\ ret.called
    /\ calls = 1
    /\ ret.text = ReportMessage
    /\ ret.heuristicResult.score = 5
    /\ ret.entry.score = 4
    /\ ret.explanation = FixedLowRiskMessage

\* s starts with head.
StartsWith(s, head) == Len(s) >= Len(head) /\ SubSeq(s, 1, Len(head)) = head

\* High Risk above 60, Medium Risk above 30, Low Risk otherwise.
TierOfScore(finalScore) ==
    IF finalScore # NaN /\ finalScore > 4 * 60 THEN "High Risk"
    ELSE IF finalScore # NaN /\ finalScore > 4 * 30 THEN "Medium Risk"
    ELSE "Low Risk"

RecommendationOfTier(tier) ==
    IF tier = "High Risk" THEN HighRecommendation
    ELSE IF tier = "Medium Risk" THEN MediumRecommendation
    ELSE LowRecommendation

\* C16: for one blended score, the tier in the header of the explanation,
\* the tier of its recommendation paragraph and the stored label are the
\* same tier (High Risk above 60, Medium Risk above 30, Low Risk
\* otherwise); below 5 the fixed message and the label are both Low Risk.
C16_OneTier ==
    ret.called =>
        LET tier == TierOfScore(ScoreGrid(ret.score))
        IN  /\ ret.label = tier
            /\ ret.entry.label = tier
            /\ StartsWith(ret.entry.explanation, "Overall Assessment: " \o tier \o "\n\n")
            /\ \/ ret.entry.explanation = FixedLowRiskMessage
               \/ EndsWith(ret.entry.explanation,
                           RecommendationHeading \o RecommendationOfTier(tier))
            /\ (ScoreGrid(ret.score) # NaN /\ ScoreGrid(ret.score) < 4 * 5) =>
                   (tier = "Low Risk" /\ ret.entry.explanation = FixedLowRiskMessage)

\* A text was labelled Medium Risk although its stored score is 30.
C16_Witness ==
    /\ ret.called
    /\ ret.entry.score = 30
    /\ ret.entry.label = "Medium Risk"
    /\ EndsWith(ret.entry.explanation, MediumRecommendation)

\* C17: keywordScore is a number, the sum of the table weights of the
\* distinct tokens that are keys of the keyword table; a token that is not
\* a key adds nothing and is never flagged; flaggedWords holds exactly the
\* tokens whose weight is above 0.6.
C17_KeywordScoreIsSum ==
    ret.called =>
        LET tokens   == Tokenize(ToLowerCase(ret.text))
            present  == { tokens[n] : n \in 1..Len(tokens) }
            keywords == present \cap KeywordKeys
            flagged  == ret.features.flaggedWords
        IN  /\ ret.features.keywordScore.exp # NaN
            /\ Tenths(ret.features.keywordScore) = KeywordWeightSum(keywords)
            /\ { flagged[n] : n \in 1..Len(flagged) }
                   = { w \in keywords : KeywordLookup(w) > 6 }

\* The characters the symbol pattern lists that are not digits.
PunctuationAndSymbols == SymbolClass \ DigitSet

\* C18: symbolRatio counts punctuation and symbol characters only and
\* digitRatio counts digits only: a digit adds nothing to symbolRatio, and
\* a text of digits only has symbolRatio 0 and digitRatio 1.
C18_SymbolsApartFromDigits ==
    ret.called =>
        LET text == ret.text
            f    == ret.features
        IN  /\ f.digitRatio.num = CountChars(text, DigitSet)
            /\ f.symbolRatio.num = CountChars(text, PunctuationAndSymbols)
            /\ (Len(text) > 0 /\ CountChars(text, DigitSet) = Len(text)) =>
                   /\ f.symbolRatio.num = 0
                   /\ f.digitRatio.num = f.digitRatio.den

\* The lines "  - reason" of the matched rules of one category, in the
\* order of the rule table, from rule k on.
RECURSIVE ReasonsInTableOrder(_, _, _)
ReasonsInTableOrder(matched, category, k) ==
    IF k > Len(advancedAnalysisRules) THEN ""
    ELSE (IF k \in matched /\ advancedAnalysisRules[k].category = category
          THEN "  - " \o advancedAnalysisRules[k].reason \o "\n" ELSE "")
         \o ReasonsInTableOrder(matched, category, k + 1)

\* One block for each category of a matched rule, placed where the first
\* matched rule of the category stands in the rule table, from rule k on.
RECURSIVE BlocksInTableOrder(_, _)
BlocksInTableOrder(matched, k) ==
    IF k > Len(advancedAnalysisRules) THEN ""
    ELSE (IF /\ k \in matched
             /\ \A j \in matched : advancedAnalysisRules[j].category
                                       = advancedAnalysisRules[k].category => j >= k
          THEN "* [" \o advancedAnalysisRules[k].category \o "]\n"
               \o ReasonsInTableOrder(matched, advancedAnalysisRules[k].category, 1)
          ELSE "")
         \o BlocksInTableOrder(matched, k + 1)

\* The number of offsets at which part stands in s.
Occurrences(s, part) ==
    Cardinality({ i \in 0..(Len(s) - Len(part)) : SubSeq(s, i + 1, i + Len(part)) = part })

\* C19: in an explanation that is not the fixed message, the heuristic
\* section has each matched category once, in the order of the first
\* matched rule of each category in the rule table, and under it the
\* reasons of its matched rules, each once, in rule-table order; there is
\* no heuristic section when no rule matched.
C19_HeuristicSection ==
    (ret.called /\ ret.explanation # FixedLowRiskMessage) =>
        LET flags   == ret.heuristicResult.foundFlags
            matched == FlaggedRules(flags)
        IN  /\ Len(flags) = 0 => ~Includes(ret.explanation, HeuristicHeading)
            /\ Len(flags) > 0 =>
                   /\ Includes(ret.explanation,
                          ExplanationIntro \o HeuristicHeading
                          \o BlocksInTableOrder(matched, 1) \o "\n")
                   /\ \A k \in matched :
                          /\ Occurrences(ret.explanation,
                                 "* [" \o advancedAnalysisRules[k].category \o "]\n") = 1
                          /\ Occurrences(ret.explanation,
                                 "  - " \o advancedAnalysisRules[k].reason \o "\n") = 1
            /\ \A k \in RuleIx \ matched :
                   ~Includes(ret.explanation, advancedAnalysisRules[k].reason)

\* An explanation was built from the evidence of URGENCY_1, URGENCY_2 and
\* FINANCIAL_1: two categories, the first with two reasons.
C19_Witness ==
    /\ ret.called
    /\ ret.explanation # FixedLowRiskMessage
    /\ FlaggedRules(ret.heuristicResult.foundFlags) = {1, 2, 3}
    /\ Occurrences(ret.explanation, "* [") = 2
    /\ Occurrences(ret.explanation, "\n  - ") >= 3

\* This step is an analyzeText call on blank text.
BlankAnalyzeText == \E text \in TypedTexts : Trim(text) = "" /\ CallAnalyzeText(text)

\* This step is a call of analyzeText on text that is not blank.
AcceptedCall == \E text \in TypedTexts : Trim(text) # "" /\ CallAnalyzeText(text)

\* This step is a call of analyzeImageOffline, up to its first await.
ImageRequestStarts == \E fileName \in FileNames : AnalyzeImageOffline(fileName)

\* This step is the turn of an image request in which its OCR succeeds
\* and analyzeText runs on the template text.
ImageRequestSucceeds == \E dataText \in OcrTexts : OcrResolved(dataText)

\* C20: analyzeText on blank text appends nothing and leaves isLoading as
\* it was; an image request whose OCR fails appends nothing; when a
\* request has finished, isLoading is false; an image request whose OCR
\* succeeds appends exactly one entry.  A request has finished with the
\* step that ends it: the call for analyzeText, the turn of the catch
\* and finally blocks for a failed image request, the turn of the alert
\* and the finally block for a successful one.  An image request appends
\* only in the turn in which its OCR succeeds, and one entry then.
C20_RequestsEnd ==
    [][/\ BlankAnalyzeText => (history' = history /\ isLoading' = isLoading)
       /\ AcceptedCall => ~isLoading'
       /\ ImageRequestStarts => history' = history
       /\ OcrRejected => (history' = history /\ ~isLoading')
       /\ ImageRequestSucceeds =>
              /\ AppendsOne
              /\ history'[Len(history')].text
                     \in { ImageText(ocr[n], d) : n \in DOMAIN ocr, d \in OcrTexts }
       /\ OcrFinished => (history' = history /\ ~isLoading')]_vars

\* An image request whose OCR succeeded has finished while another
\* recognition is pending, and analyzeText was called once, on blank
\* text: the entry of the image is the only one, and isLoading is false.
C20_Witness ==
    /\ calls = 1
    /\ Len(history) = 1
    /\ history[1].text \in ImageTexts
    /\ ret.text \in ImageTexts
    /\ finishing = 0
    /\ ocr # << >>
    /\ ~isLoading
====
